---- MODULE Spec2Model ----
(***************************************************************************)
(* Quote service (src/sever.go): GET /cotacao fetches the USD-BRL quote    *)
(* from the upstream provider under a 200ms deadline, races a simulated    *)
(* 5ms write against a 10ms context derived from the inbound request, and  *)
(* answers with the re-encoded quote.                                      *)
(*                                                                         *)
(* Time is in milliseconds, measured per request from the moment the       *)
(* handler is entered; only blocking operations (the upstream exchange,    *)
(* the select, the store call) take time.                                  *)
(***************************************************************************)
EXTENDS Integers, Sequences, FiniteSets, TLC

\* ------------------------------------------------------------------ bounds
NumReqs == 2
\* Runs of the Local Client, one after the other.
MaxRuns == 2

Reqs == 1..NumReqs

\* ------------------------------------------------------- program constants
StatusOK == 200
StatusNotFound == 404
StatusInternalServerError == 500
FetchTimeout == 200
PersistTimeout == 10
\* The Local Client's deadline for its GET (src/client/client.go).
ClientTimeout == 300
\* A simulated write that is slower than the persistence deadline.
SlowSimulatedWrite == PersistTimeout + 5
SimulatedWrite == 5

\* No status line was written (the handler panicked before WriteHeader).
NoStatus == 0
\* r.Context() has not been cancelled.
NoCancel == -1

\* ------------------------------------------------------------ input sets
Paths == {"/cotacao", "/other"}
\* What db.Create does: how long it takes and whether it reports an error.
StoreOutcomes ==
    {[dur |-> 3, failed |-> FALSE],
     [dur |-> 20, failed |-> FALSE],
     [dur |-> 3, failed |-> TRUE]}
\* Delay between entering the select and the caller closing the connection
\* (a caller that is gone before the select disconnects during the fetch).
DisconnectDelays == {2}

\* ------------------------------------------------------------------ JSON
Fields == {"code", "codein", "name", "high", "low", "varBid", "pctChange",
           "bid", "ask", "timestamp", "create_date"}

EmptyMembers == [k \in {} |-> <<>>]

ZeroFields == [f \in Fields |-> <<>>]

\* *USDToBRLRate: a nil pointer, or a pointer to a decoded struct.
NilRate == [nil |-> TRUE, USDBRL |-> ZeroFields]

\* The end-to-end scenario's upstream document: four of the eleven keys.
ScenarioQuote ==
    [k \in {"code", "bid", "ask", "timestamp"} |->
        CASE k = "code" -> <<"U", "S", "D">>
          [] k = "bid" -> <<"5", ".", "4", "3", "2", "1">>
          [] k = "ask" -> <<"5", ".", "4", "3", "2", "5">>
          [] k = "timestamp" -> <<"1", "7", "0", "0">>]

\* All eleven keys and one the struct does not declare; bid is not a number.
BadBidQuote ==
    [k \in Fields \cup {"extra"} |->
        CASE k = "code" -> <<"U", "S", "D">>
          [] k = "codein" -> <<"B", "R", "L">>
          [] k = "bid" -> <<"a", "b", "c">>
          [] k = "ask" -> <<"5", ".", "5">>
          [] k = "timestamp" -> <<"1", "7", "0", "1">>
          [] OTHER -> <<"x">>]

\* bid is a number; ask and timestamp are not.
BadAskTimestampQuote ==
    [k \in {"code", "bid", "ask", "timestamp"} |->
        CASE k = "code" -> <<"U", "S", "D">>
          [] k = "bid" -> <<"5", ".", "2", "5">>
          [] k = "ask" -> <<"5", ",", "3">>
          [] k = "timestamp" -> <<"n", "o", "w">>]

JSONMalformed == [kind |-> "malformed", members |-> EmptyMembers]
JSONNull == [kind |-> "null", members |-> EmptyMembers]
JSONEmpty == [kind |-> "empty", members |-> EmptyMembers]
JSONObject(q) == [kind |-> "object", members |-> [k \in {"USDBRL"} |-> q]]

\* json.Unmarshal(body, &rate): unknown keys are dropped, absent keys leave
\* the zero value, a syntax error is reported.
Unmarshal(doc) ==
    IF doc.kind = "malformed" \/ doc.kind = "empty"
    THEN [err |-> "decode", rate |-> NilRate]
    ELSE [err |-> "nil",
          rate |-> [nil |-> FALSE,
                    USDBRL |-> [f \in Fields |->
                        IF /\ "USDBRL" \in DOMAIN doc.members
                           /\ f \in DOMAIN doc.members["USDBRL"]
                        THEN doc.members["USDBRL"][f]
                        ELSE <<>>]]]

\* json.NewEncoder(w).Encode(rate): a nil pointer encodes as null, a struct
\* as an object with every declared field.
EncodeCached(rate) ==
    IF rate.nil THEN JSONNull
    ELSE JSONObject([f \in Fields |->
                        IF f \in DOMAIN ScenarioQuote
                        THEN ScenarioQuote[f] ELSE <<>>])
Encode(rate) ==
    IF rate.nil THEN JSONNull
    ELSE JSONObject([f \in Fields |-> rate.USDBRL[f]])

\* ------------------------------------------------------------- strconv
IsDigit(c) == c \in {"0", "1", "2", "3", "4", "5", "6", "7", "8", "9"}

DigitValue(c) ==
    CASE c = "0" -> 0 [] c = "1" -> 1 [] c = "2" -> 2 [] c = "3" -> 3
      [] c = "4" -> 4 [] c = "5" -> 5 [] c = "6" -> 6 [] c = "7" -> 7
      [] c = "8" -> 8 [] c = "9" -> 9 [] OTHER -> 0

AllDigits(s) == \A i \in 1..Len(s) : IsDigit(s[i])

RECURSIVE DigitsValue(_)
DigitsValue(s) ==
    IF s = <<>> THEN 0
    ELSE 10 * DigitsValue(SubSeq(s, 1, Len(s) - 1)) + DigitValue(s[Len(s)])

HasSign(s) == s # <<>> /\ s[1] \in {"+", "-"}
Unsigned(s) == IF HasSign(s) THEN Tail(s) ELSE s
Sign(s) == IF s # <<>> /\ s[1] = "-" THEN -1 ELSE 1

\* strconv.ParseInt(s, 10, 64): an optional sign and at least one digit.
ParseInt(s) ==
    LET u == Unsigned(s)
    IN  IF u # <<>> /\ AllDigits(u)
        THEN [err |-> FALSE, val |-> Sign(s) * DigitsValue(u)]
        ELSE [err |-> TRUE, val |-> 0]

\* float64 values are kept as a whole number of 1/FloatScale units, which is
\* exact for the decimal strings with up to four fraction digits used here.
FloatScale == 10000
FracDigits == 4

RECURSIVE PadRight(_, _)
PadRight(s, n) == IF Len(s) >= n THEN s ELSE PadRight(Append(s, "0"), n)

DotAt(s) == IF \E i \in 1..Len(s) : s[i] = "."
            THEN CHOOSE i \in 1..Len(s) : s[i] = "." /\ \A j \in 1..(i - 1) : s[j] # "."
            ELSE 0

\* strconv.ParseFloat(s, 64), decimal form: [sign] digits [ "." digits ].
ParseFloat(s) ==
    LET u == Unsigned(s)
        d == DotAt(u)
        ip == IF d = 0 THEN u ELSE SubSeq(u, 1, d - 1)
        fp == IF d = 0 THEN <<>> ELSE SubSeq(u, d + 1, Len(u))
    IN  IF /\ AllDigits(ip) /\ AllDigits(fp)
           /\ Len(ip) + Len(fp) >= 1
           /\ Len(fp) <= FracDigits
        THEN [err |-> FALSE,
              val |-> Sign(s) * (DigitsValue(ip) * FloatScale
                                   + DigitsValue(PadRight(fp, FracDigits)))]
        ELSE [err |-> TRUE, val |-> 0]

parseTimestamp(s) == IF ParseInt(s).err THEN 0 ELSE ParseInt(s).val

parseFloat(s) == IF ParseFloat(s).err THEN 0 ELSE ParseFloat(s).val

\* The log.Printf lines parseFloat and parseTimestamp emit for one record.
ParseLogs(rate) ==
    (IF ParseFloat(rate.USDBRL["bid"]).err THEN <<"parse_error">> ELSE <<>>)
    \o (IF ParseFloat(rate.USDBRL["ask"]).err THEN <<"parse_error">> ELSE <<>>)
    \o (IF ParseInt(rate.USDBRL["timestamp"]).err THEN <<"parse_error">> ELSE <<>>)

\* The USDToBRLRateDB value SaveExchangeRate hands to db.Create; the
\* auto-increment ID is assigned by the store.
RateDBAskFromBid(rate, id) ==
    [ID |-> id,
     Code |-> rate.USDBRL["code"],
     Bid |-> parseFloat(rate.USDBRL["bid"]),
     Ask |-> parseFloat(rate.USDBRL["bid"]),
     Timestamp |-> parseTimestamp(rate.USDBRL["timestamp"])]
RateDB(rate, id) ==
    [ID |-> id,
     Code |-> rate.USDBRL["code"],
     Bid |-> parseFloat(rate.USDBRL["bid"]),
     Ask |-> parseFloat(rate.USDBRL["ask"]),
     Timestamp |-> parseTimestamp(rate.USDBRL["timestamp"])]

\* No record has been built.
NoRateDB == [ID |-> 0, Code |-> <<>>, Bid |-> 0, Ask |-> 0, Timestamp |-> 0]

\* ------------------------------------------------------------ upstream
\* What the quote provider does with the one GET: how long the exchange
\* (headers and body) takes, whether the transport fails, and the status and
\* body it answers with, which may fail to read.
Upstreams ==
    {[dur |-> 250, transport |-> "ok", status |-> 200, readOk |-> TRUE,
      body |-> JSONObject(ScenarioQuote)],
     [dur |-> 20, transport |-> "error", status |-> 0, readOk |-> FALSE,
      body |-> JSONEmpty],
     [dur |-> 20, transport |-> "ok", status |-> 500, readOk |-> TRUE,
      body |-> JSONEmpty],
     [dur |-> 20, transport |-> "ok", status |-> 200, readOk |-> FALSE,
      body |-> JSONEmpty],
     [dur |-> 20, transport |-> "ok", status |-> 200, readOk |-> TRUE,
      body |-> JSONMalformed],
     [dur |-> 20, transport |-> "ok", status |-> 200, readOk |-> TRUE,
      body |-> JSONObject(ScenarioQuote)],
     [dur |-> 150, transport |-> "ok", status |-> 200, readOk |-> TRUE,
      body |-> JSONObject(BadBidQuote)],
     [dur |-> 150, transport |-> "ok", status |-> 200, readOk |-> TRUE,
      body |-> JSONObject(BadAskTimestampQuote)]}

NoUpstream ==
    [dur |-> 0, transport |-> "none", status |-> 0, readOk |-> FALSE,
     body |-> JSONEmpty]

\* What the handler's goroutine gets to see of the provider's answer: nothing
\* when the 200ms deadline expires first.
Observed(up) == IF up.dur >= FetchTimeout THEN NoUpstream ELSE up

\* The fetch failed: by deadline, transport, status, body read or decoding.
FetchFailed(up) ==
    \/ up.transport # "ok"
    \/ up.status < 200 \/ up.status > 299
    \/ ~up.readOk
    \/ Unmarshal(up.body).err # "nil"

\* How many times GetExchangeRate has called http.DefaultClient.Do by the
\* time it returns res: once, whatever the outcome.
AttemptsWithRetry(res) == IF res.err # "nil" THEN 2 ELSE 1
Attempts(res) == 1

\* GetExchangeRate without its deadline: it waits for the provider.
GetExchangeRateNoDeadline(up) ==
    IF up.transport # "ok"
    THEN [rate |-> NilRate, err |-> "transport", took |-> up.dur]
    ELSE IF up.status # StatusOK
    THEN [rate |-> NilRate, err |-> "nil", took |-> up.dur]
    ELSE IF ~up.readOk
    THEN [rate |-> NilRate, err |-> "read", took |-> up.dur]
    ELSE [rate |-> Unmarshal(up.body).rate, err |-> Unmarshal(up.body).err,
          took |-> up.dur]
\* GetExchangeRate: the (rate, err) pair it returns and the time it took.
GetExchangeRate(up) ==
    IF up.dur >= FetchTimeout
    THEN [rate |-> NilRate, err |-> "timeout", took |-> FetchTimeout]
    ELSE IF up.transport # "ok"
    THEN [rate |-> NilRate, err |-> "transport", took |-> up.dur]
    ELSE IF up.status # StatusOK
    THEN [rate |-> NilRate, err |-> "nil", took |-> up.dur]
    ELSE IF ~up.readOk
    THEN [rate |-> NilRate, err |-> "read", took |-> up.dur]
    ELSE [rate |-> Unmarshal(up.body).rate, err |-> Unmarshal(up.body).err,
          took |-> up.dur]

\* ---------------------------------------------------------------- state
\* req[r] is the goroutine serving inbound request r; db is the table behind
\* the shared *gorm.DB handle.
VARIABLES req, db

\* client is the Local Client process (src/client/client.go); file is
\* cotacao.txt in its working directory.
VARIABLES client, file

vars == <<req, db, client, file>>

clientVars == <<client, file>>

NoResponse == [status |-> NoStatus, ctype |-> "", body |-> JSONEmpty]

InitReq ==
    [pc |-> "idle",            \* idle, fetching, select, storing, done
     path |-> "",              \* r.URL.Path
     now |-> 0,                \* ms since the handler was entered
     cancelAt |-> NoCancel,    \* when the caller closed the connection
     upstream |-> NoUpstream,  \* what the provider answered
     upstreamCalls |-> 0,      \* GETs issued to the provider
     rate |-> NilRate,         \* rate, err := GetExchangeRate()
     err |-> "nil",
     fetchEnd |-> 0,           \* when GetExchangeRate returned
     ctxDeadline |-> 0,        \* deadline of the persistence context
     committed |-> FALSE,      \* the time.After case was selected
     abandoned |-> FALSE,      \* the ctx.Done case was selected
     saveCalls |-> 0,          \* invocations of SaveExchangeRate
     storeCalls |-> 0,         \* invocations of db.Create
     rateDB |-> NoRateDB,      \* the record handed to db.Create
     rowID |-> 0,              \* the ID db.Create gave the stored row
     storeReturned |-> FALSE,
     storeErr |-> FALSE,
     storeEnd |-> 0,           \* when db.Create returned
     panicked |-> FALSE,
     logs |-> <<>>,
     resp |-> NoResponse,
     respAt |-> 0]             \* when the response was written

NoFile == [exists |-> FALSE, content |-> <<>>]

InitClient ==
    [pc |-> "start",          \* start, waiting, create, write, exited
     runs |-> 1,              \* this is the runs-th run of the client
     gets |-> 0,              \* GETs issued in this run
     answer |-> NoUpstream,   \* what the service answered
     rate |-> NilRate,        \* the decoded USDToBRLRate
     createOk |-> TRUE,       \* os.Create succeeded
     writeOk |-> TRUE,        \* file.WriteString succeeded
     failure |-> "none",      \* which step failed
     exit |-> -1,             \* the exit code, -1 while running
     before |-> NoFile,       \* the file when this run started
     lastGood |-> NoFile]     \* the file as the last successful run left it

Init ==
    /\ req = [r \in Reqs |-> InitReq]
    /\ db = <<>>
    /\ client = InitClient
    /\ file = NoFile

\* ------------------------------------------------------------- helpers
\* The routed path check at the top of the handler.
AnyPathIsCotacao(path) == TRUE
IsCotacao(path) == path = "/cotacao"

\* context.WithTimeout(parent, d) created at time t: the deadline.
WithTimeoutFromRequestStart(t, d) == d
WithTimeout(t, d) == t + d

\* When the persistence context of q is done: at its deadline, or as soon as
\* the inbound request's context is cancelled, whichever comes first.
CtxDoneAt(q) ==
    IF q.cancelAt = NoCancel THEN q.ctxDeadline
    ELSE IF q.cancelAt <= q.fetchEnd THEN q.fetchEnd
    ELSE IF q.cancelAt < q.ctxDeadline THEN q.cancelAt
    ELSE q.ctxDeadline

\* When the time.After channel of the select delivers.
TimerAtAfterDeadline(q) == q.fetchEnd + PersistTimeout + SimulatedWrite
TimerAt(q) == q.fetchEnd + SimulatedWrite

\* w.Header().Set; w.WriteHeader(200); json.NewEncoder(w).Encode(rate)
ErrorOnStoreFailure(q) ==
    IF q.storeErr
    THEN [status |-> StatusInternalServerError, ctype |-> "", body |-> JSONEmpty]
    ELSE [status |-> StatusOK, ctype |-> "application/json", body |-> Encode(q.rate)]
WriteResponse(q) ==
    [status |-> StatusOK, ctype |-> "application/json", body |-> Encode(q.rate)]

\* ------------------------------------------------------------- actions
\* The handler is entered: any path but /cotacao is answered 404 at once;
\* otherwise GetExchangeRate issues its one GET and blocks on the provider.
Receive(r) ==
    /\ req[r].pc = "idle"
    /\ \E p \in Paths :
        req' = [req EXCEPT ![r] =
            IF ~IsCotacao(p)
            THEN [@ EXCEPT !.pc = "done", !.path = p,
                           !.resp = [NoResponse EXCEPT !.status = StatusNotFound]]
            ELSE [@ EXCEPT !.pc = "fetching", !.path = p,
                           !.upstreamCalls = @ + 1]]
    /\ UNCHANGED <<db, clientVars>>

\* GetExchangeRate returns. An error is logged and answered 500; otherwise
\* the 10ms context is created and the goroutine blocks in the select.
FetchReturn(r) ==
    /\ req[r].pc = "fetching"
    /\ \E up \in Upstreams :
        LET res == GetExchangeRate(up)
        IN  req' = [req EXCEPT ![r] =
              IF res.err # "nil"
              THEN [@ EXCEPT !.pc = "done", !.upstream = Observed(up),
                             !.upstreamCalls = Attempts(res),
                             !.rate = res.rate, !.err = res.err,
                             !.now = res.took, !.fetchEnd = res.took,
                             !.logs = Append(@, "fetch_error"),
                             !.resp = [NoResponse EXCEPT
                                          !.status = StatusInternalServerError],
                             !.respAt = res.took]
              ELSE [@ EXCEPT !.pc = "select", !.upstream = Observed(up),
                             !.upstreamCalls = Attempts(res),
                             !.rate = res.rate, !.err = res.err,
                             !.now = res.took, !.fetchEnd = res.took,
                             !.ctxDeadline = WithTimeout(res.took, PersistTimeout)]]
    /\ UNCHANGED <<db, clientVars>>

\* The body of case <-time.After(5ms): SaveExchangeRate(rate) is called. A
\* nil rate panics on the first field access (net/http recovers and drops
\* the connection); otherwise the record is built and db.Create is entered.
TimerCase(q) ==
    IF q.rate.nil
    THEN [q EXCEPT !.pc = "done", !.committed = TRUE,
                   !.now = TimerAt(q), !.saveCalls = @ + 1,
                   !.panicked = TRUE,
                   !.logs = Append(@, "panic")]
    ELSE [q EXCEPT !.pc = "storing", !.committed = TRUE,
                   !.now = TimerAt(q), !.saveCalls = @ + 1,
                   !.storeCalls = @ + 1,
                   !.rateDB = RateDB(q.rate, 0),
                   !.logs = @ \o ParseLogs(q.rate)]

\* The body of case <-ctx.Done(): the timeout line is logged and the
\* response written; SaveExchangeRate is not called.
CtxDoneCaseStillSaves(q) ==
    [q EXCEPT !.pc = "done", !.abandoned = TRUE,
              !.now = CtxDoneAt(q),
              !.saveCalls = @ + 1,
              !.logs = Append(@, "persist_timeout"),
              !.resp = WriteResponse(q),
              !.respAt = CtxDoneAt(q)]
CtxDoneCase(q) ==
    [q EXCEPT !.pc = "done", !.abandoned = TRUE,
              !.now = CtxDoneAt(q),
              !.logs = Append(@, "persist_timeout"),
              !.resp = WriteResponse(q),
              !.respAt = CtxDoneAt(q)]

\* case <-time.After(5ms) is selected.
SelectTimer(r) ==
    LET q == req[r]
    IN  /\ q.pc = "select"
        /\ TimerAt(q) <= CtxDoneAt(q)
        /\ req' = [req EXCEPT ![r] = TimerCase(q)]
        /\ UNCHANGED <<db, clientVars>>

\* case <-ctx.Done() is selected.
SelectDone(r) ==
    LET q == req[r]
    IN  /\ q.pc = "select"
        /\ CtxDoneAt(q) <= TimerAt(q)
        /\ req' = [req EXCEPT ![r] = CtxDoneCase(q)]
        /\ UNCHANGED <<db, clientVars>>

\* db.Create returns, SaveExchangeRate returns its error, the handler logs
\* when that error is not nil and writes the response.
StoreReturn(r) ==
    LET q == req[r]
    IN  /\ q.pc = "storing"
        /\ \E st \in StoreOutcomes :
            LET q2 == [q EXCEPT !.storeReturned = TRUE, !.storeErr = st.failed,
                                !.now = q.now + st.dur, !.storeEnd = q.now + st.dur,
                                !.rowID = IF st.failed THEN 0 ELSE Len(db) + 1]
            IN  /\ req' = [req EXCEPT ![r] =
                     [q2 EXCEPT !.pc = "done",
                                !.logs = IF st.failed
                                         THEN Append(@, "persist_success")
                                         ELSE @,
                                !.resp = WriteResponse(q2),
                                !.respAt = q2.now]]
                /\ db' = IF st.failed THEN db
                         ELSE Append(db, [q.rateDB EXCEPT !.ID = Len(db) + 1])
                /\ UNCHANGED clientVars

\* The caller closes the connection, which cancels r.Context(): 1ms into
\* the fetch or the store call, or d ms into the select.
CallerDisconnect(r) ==
    LET q == req[r]
    IN  /\ q.pc \in {"fetching", "select", "storing"}
        /\ q.cancelAt = NoCancel
        /\ \E d \in DisconnectDelays \cup {1} :
            /\ (q.pc # "select") => d = 1
            /\ (q.pc = "select") => (d \in DisconnectDelays /\ d <= SimulatedWrite)
            /\ req' = [req EXCEPT ![r].cancelAt = q.now + d]
        /\ UNCHANGED <<db, clientVars>>

Next ==
    \E r \in Reqs :
        \/ Receive(r)
        \/ FetchReturn(r)
        \/ SelectTimer(r)
        \/ SelectDone(r)
        \/ StoreReturn(r)
        \/ CallerDisconnect(r)

Spec == Init /\ [][Next]_vars

\* --------------------------------------------------------- Local Client
\* What the service does with the client's GET, in the shape of Upstreams:
\* the handler's responses, a dropped connection, an unreadable or foreign
\* body, and an answer that comes after the client's deadline.
ServiceAnswers ==
    {[dur |-> 28, transport |-> "ok", status |-> StatusOK, readOk |-> TRUE,
      body |-> Encode(Unmarshal(JSONObject(ScenarioQuote)).rate)],
     [dur |-> 158, transport |-> "ok", status |-> StatusOK, readOk |-> TRUE,
      body |-> Encode(Unmarshal(JSONObject(BadBidQuote)).rate)],
     [dur |-> 350, transport |-> "ok", status |-> StatusOK, readOk |-> TRUE,
      body |-> Encode(Unmarshal(JSONObject(ScenarioQuote)).rate)],
     [dur |-> 200, transport |-> "ok", status |-> StatusInternalServerError,
      readOk |-> TRUE, body |-> JSONEmpty],
     [dur |-> 25, transport |-> "error", status |-> 0, readOk |-> FALSE,
      body |-> JSONEmpty],
     [dur |-> 28, transport |-> "ok", status |-> StatusOK, readOk |-> FALSE,
      body |-> JSONEmpty],
     [dur |-> 28, transport |-> "ok", status |-> StatusOK, readOk |-> TRUE,
      body |-> JSONMalformed],
     [dur |-> 28, transport |-> "ok", status |-> StatusOK, readOk |-> TRUE,
      body |-> JSONNull]}

\* main up to the decoded rate: which step failed, and the rate.
ClientFetch(ans) ==
    IF ans.dur >= ClientTimeout THEN [failure |-> "timeout", rate |-> NilRate]
    ELSE IF ans.transport # "ok" THEN [failure |-> "transport", rate |-> NilRate]
    ELSE IF ans.status # StatusOK THEN [failure |-> "status", rate |-> NilRate]
    ELSE IF ~ans.readOk THEN [failure |-> "read", rate |-> NilRate]
    ELSE IF Unmarshal(ans.body).err # "nil"
    THEN [failure |-> "decode", rate |-> NilRate]
    ELSE [failure |-> "none", rate |-> Unmarshal(ans.body).rate]

\* os.Exit(1) on every failure; main returning exits with 0.
ExitZero(failure) == 0
ExitCode(failure) == IF failure = "none" THEN 0 ELSE 1

\* os.Create: the file exists and is empty.
OsCreate(f) == [exists |-> TRUE, content |-> <<>>]

\* fmt.Sprintf("Dolar: {%s}", bid)
SprintfNoBraces(bid) == <<"D", "o", "l", "a", "r", ":", " ">> \o bid
Sprintf(bid) == <<"D", "o", "l", "a", "r", ":", " ", "{">> \o bid \o <<"}">>

\* How many bytes a failing WriteString got onto the disk.
PartialWrites == {0, 3}

\* The client starts and issues its one GET under the 300ms deadline.
ClientStart ==
    /\ client.pc = "start"
    /\ client' = [client EXCEPT !.pc = "waiting", !.gets = @ + 1,
                                !.before = file]
    /\ UNCHANGED <<req, db, file>>

\* Do returns; status check, body read and decoding. Any failure exits.
ClientResponse ==
    /\ client.pc = "waiting"
    /\ \E ans \in ServiceAnswers :
        LET res == ClientFetch(ans)
        IN  client' = [client EXCEPT
                !.answer = ans, !.rate = res.rate, !.failure = res.failure,
                !.pc = IF res.failure = "none" THEN "create" ELSE "exited",
                !.exit = IF res.failure = "none" THEN @
                         ELSE ExitCode(res.failure)]
    /\ UNCHANGED <<req, db, file>>

\* os.Create("cotacao.txt") truncates the file, or fails and exits.
ClientCreate ==
    /\ client.pc = "create"
    /\ \E ok \in BOOLEAN :
        IF ok
        THEN /\ file' = OsCreate(file)
             /\ client' = [client EXCEPT !.pc = "write", !.createOk = TRUE]
        ELSE /\ file' = file
             /\ client' = [client EXCEPT !.pc = "exited", !.createOk = FALSE,
                                         !.failure = "create",
                                         !.exit = ExitCode("create")]
    /\ UNCHANGED <<req, db>>

\* file.WriteString: the whole line, or part of it and an error.
ClientWrite ==
    /\ client.pc = "write"
    /\ LET line == Sprintf(client.rate.USDBRL["bid"])
       IN  \/ /\ file' = [file EXCEPT !.content = line]
              /\ client' = [client EXCEPT !.pc = "exited", !.writeOk = TRUE,
                                          !.exit = ExitCode("none"),
                                          !.lastGood = file']
           \/ \E n \in PartialWrites :
              /\ file' = [file EXCEPT !.content = SubSeq(line, 1, n)]
              /\ client' = [client EXCEPT !.pc = "exited", !.writeOk = FALSE,
                                          !.failure = "write",
                                          !.exit = ExitCode("write")]
    /\ UNCHANGED <<req, db>>

\* The client is run again; the file is what the last run left.
ClientRerun ==
    /\ client.pc = "exited"
    /\ client.runs < MaxRuns
    /\ client' = [InitClient EXCEPT !.runs = client.runs + 1,
                                    !.lastGood = client.lastGood]
    /\ UNCHANGED <<req, db, file>>

NextClient ==
    \/ ClientStart
    \/ ClientResponse
    \/ ClientCreate
    \/ ClientWrite
    \/ ClientRerun

SpecClient == Init /\ [][NextClient]_vars

\* ---------------------------------------------------------------- claims
\* The request reached the handler's fetch and the fetch has returned.
Fetched(q) == q.pc \in {"select", "storing", "done"} /\ q.path = "/cotacao"

\* The select of the persistence step has taken one of its cases.
Resolved(q) == Fetched(q) /\ q.err = "nil" /\ q.pc \in {"storing", "done"}

EmptyError == [status |-> StatusInternalServerError, ctype |-> "", body |-> JSONEmpty]

\* C1: every kind of upstream fetch failure makes GetExchangeRate report an
\* error and the handler answer 500 with an empty body.
C1_FailedFetchAnswers500 ==
    \A r \in Reqs :
        LET q == req[r]
        IN  (q.pc = "done" /\ Fetched(q) /\ FetchFailed(q.upstream))
                => (q.err # "nil" /\ q.resp = EmptyError)

\* C2: SaveExchangeRate is invoked, and the persistence step entered, only
\* for a request whose fetch succeeded and yielded a decoded Quote.
C2_PersistOnlyAfterSuccessfulFetch ==
    \A r \in Reqs :
        LET q == req[r]
        IN  (q.saveCalls > 0 \/ q.committed \/ q.abandoned)
                => (~FetchFailed(q.upstream) /\ ~q.rate.nil)

\* C3: the response starts no later than the 10ms persistence budget after
\* the end of the fetch, however long the store call takes.
C3_ResponseWithinPersistBudget ==
    \A r \in Reqs :
        LET q == req[r]
        IN  (q.pc = "done" /\ q.resp.status = StatusOK)
                => q.respAt - q.fetchEnd <= PersistTimeout

\* C4: for a fetched Quote the attempt is committed only if the store call
\* began and completed before the 10ms deadline, and is abandoned whenever
\* the deadline fires before the store call has completed.
C4_CommittedIffStoreBeatsDeadline ==
    \A r \in Reqs :
        LET q == req[r]
            storeBeatDeadline == /\ q.storeCalls > 0
                                 /\ q.storeReturned
                                 /\ q.storeEnd < q.ctxDeadline
        IN  (q.pc = "done" /\ Resolved(q) /\ ~q.rate.nil)
                => /\ q.committed => storeBeatDeadline
                   /\ ~storeBeatDeadline => q.abandoned

\* C5: for every successfully fetched Quote the response is 200,
\* application/json, with a body that decodes to the Quote decoded from the
\* upstream body, whatever the persistence step did.
C5_ResponseIsTheQuote ==
    \A r \in Reqs :
        LET q == req[r]
        IN  (q.pc = "done" /\ Fetched(q) /\ ~FetchFailed(q.upstream))
                => /\ q.resp.status = StatusOK
                   /\ q.resp.ctype = "application/json"
                   /\ q.resp.body.kind = "object"
                   /\ Unmarshal(q.resp.body) = Unmarshal(q.upstream.body)

\* Two requests got the same Quote; one was abandoned, the other committed
\* with a failing store call; both are answered alike.
C5_Witness ==
    \E r \in Reqs, s \in Reqs :
        /\ req[r].pc = "done" /\ req[s].pc = "done"
        /\ ~FetchFailed(req[r].upstream)
        /\ req[r].upstream = req[s].upstream
        /\ req[r].abandoned
        /\ req[s].committed /\ req[s].storeReturned /\ req[s].storeErr
        /\ req[r].resp = req[s].resp

\* C6: on the committed path the success line is logged whether the store
\* call succeeded or failed, and the branch emits exactly one log line.
C6_CommittedLogsSuccessOnce ==
    \A r \in Reqs :
        LET q == req[r]
        IN  (q.pc = "done" /\ q.committed /\ q.storeReturned)
                => q.logs = <<"persist_success">>

\* C7: each persistence step resolves as exactly one of committed and
\* abandoned, a request that never reaches the step resolves as neither, and
\* the step's deadline is 10ms after its own fetch returned.
C7_OneOutcomeFreshBudget ==
    \A r \in Reqs :
        LET q == req[r]
        IN  /\ Resolved(q) => (q.committed # q.abandoned)
            /\ ~Resolved(q) => (~q.committed /\ ~q.abandoned)
            /\ (Fetched(q) /\ q.err = "nil")
                   => q.ctxDeadline = q.fetchEnd + PersistTimeout

\* Two requests whose fetches took different times both resolved, one each way.
C7_Witness ==
    \E r \in Reqs, s \in Reqs :
        /\ Resolved(req[r]) /\ Resolved(req[s])
        /\ req[r].fetchEnd # req[s].fetchEnd
        /\ req[r].committed /\ req[s].abandoned
        /\ req[r].ctxDeadline # req[s].ctxDeadline

C9_FetchThenPersistThenRespond ==
    \A r \in Reqs :
        LET q == req[r]
        IN  /\ (q.pc = "select" \/ q.committed \/ q.abandoned)
                   => (~FetchFailed(q.upstream) /\ q.now >= q.fetchEnd)
            /\ q.resp.status = StatusOK
                   => /\ q.committed # q.abandoned
                      /\ q.committed => q.storeReturned
                      /\ q.respAt >= q.fetchEnd

\* C10: a request for another path ends at once with 404, with no upstream
\* call and no persistence step.
C10_OtherPathIs404 ==
    \A r \in Reqs :
        LET q == req[r]
        IN  (q.pc # "idle" /\ q.path # "/cotacao")
                => /\ q.pc = "done"
                   /\ q.resp.status = StatusNotFound
                   /\ q.upstreamCalls = 0
                   /\ q.saveCalls = 0 /\ q.storeCalls = 0
                   /\ ~q.committed /\ ~q.abandoned
                   /\ q.logs = <<>>

\* One request was answered 404 while another one fetched and stored.
C10_Witness ==
    \E r \in Reqs, s \in Reqs :
        /\ req[r].pc = "done" /\ req[r].path = "/other"
        /\ req[r].resp.status = StatusNotFound
        /\ req[s].pc = "done" /\ req[s].upstreamCalls = 1 /\ Len(db) = 1

\* The provider had not answered when the 200ms deadline expired.
TimedOut(q) == Fetched(q) /\ q.upstream = NoUpstream

\* C11: when the upstream call exceeds 200ms the fetch fails with a timeout
\* and the 500 is written at the 200ms expiry, with no persistence step and
\* no second GET, which is before the Local Client's 300ms deadline.
C11_TimeoutAnswers500At200 ==
    \A r \in Reqs :
        LET q == req[r]
        IN  TimedOut(q)
                => /\ q.pc = "done"
                   /\ q.err = "timeout"
                   /\ q.resp = EmptyError
                   /\ q.respAt = FetchTimeout
                   /\ q.respAt < ClientTimeout
                   /\ q.upstreamCalls = 1
                   /\ q.saveCalls = 0 /\ ~q.committed /\ ~q.abandoned

\* A request whose provider took longer than 200ms has been answered.
C11_Witness ==
    \E r \in Reqs :
        /\ TimedOut(req[r]) /\ req[r].pc = "done"
        /\ req[r].respAt = FetchTimeout
        /\ req[r].resp.status = StatusInternalServerError

\* C12: a request issues at most one upstream GET (exactly one once the
\* fetch returned), calls SaveExchangeRate and db.Create at most once, and a
\* fetch that reported an error ends the request.
C12_AtMostOneGetAndOneWrite ==
    \A r \in Reqs :
        LET q == req[r]
        IN  /\ q.upstreamCalls <= 1
            /\ q.saveCalls <= 1
            /\ q.storeCalls <= 1
            /\ Fetched(q) => q.upstreamCalls = 1
            /\ q.err # "nil" => q.pc = "done"

\* One request ended on a failed fetch, another stored its record.
C12_Witness ==
    \E r \in Reqs, s \in Reqs :
        /\ req[r].pc = "done" /\ req[r].err # "nil" /\ req[r].upstreamCalls = 1
        /\ req[s].pc = "done" /\ req[s].storeCalls = 1 /\ req[s].upstreamCalls = 1

\* The record each upstream document must give, with Bid and Ask in units of
\* 1/10000 and an ID of id.
ExpectedRecord(body, id) ==
    CASE body = JSONObject(ScenarioQuote) ->
            [ID |-> id, Code |-> <<"U", "S", "D">>,
             Bid |-> 54321, Ask |-> 54325, Timestamp |-> 1700]
      [] body = JSONObject(BadBidQuote) ->
            [ID |-> id, Code |-> <<"U", "S", "D">>,
             Bid |-> 0, Ask |-> 55000, Timestamp |-> 1701]
      [] body = JSONObject(BadAskTimestampQuote) ->
            [ID |-> id, Code |-> <<"U", "S", "D">>,
             Bid |-> 52500, Ask |-> 0, Timestamp |-> 0]
      [] OTHER -> NoRateDB

\* C13: the record handed to db.Create has the Quote's code and the parsed
\* bid, ask and timestamp, an unparsable field being 0 and the others kept;
\* the record is submitted all the same, and stored as submitted when the
\* store call succeeds.
C13_StoredRecordIsParsedQuote ==
    \A r \in Reqs :
        LET q == req[r]
        IN  /\ (q.committed /\ ~q.rate.nil)
                   => /\ q.storeCalls = 1 /\ ~q.panicked
                      /\ q.rateDB = ExpectedRecord(q.upstream.body, 0)
            /\ (q.storeReturned /\ ~q.storeErr)
                   => /\ q.rowID \in 1..Len(db)
                      /\ db[q.rowID] = ExpectedRecord(q.upstream.body, q.rowID)

\* The Quote with the unparsable bid and the one with the unparsable ask and
\* timestamp were both stored.
C13_Witness ==
    \E r \in Reqs, s \in Reqs :
        /\ req[r].upstream.body = JSONObject(BadBidQuote)
        /\ req[r].storeReturned /\ ~req[r].storeErr
        /\ db[req[r].rowID].Bid = 0 /\ db[req[r].rowID].Ask = 55000
        /\ req[s].upstream.body = JSONObject(BadAskTimestampQuote)
        /\ req[s].storeReturned /\ ~req[s].storeErr
        /\ db[req[s].rowID].Ask = 0 /\ db[req[s].rowID].Bid = 52500

\* The client's run ended on one of its failures.
ClientFailed == client.pc = "exited" /\ client.failure # "none"

\* The service answered 200 with a Quote before the client's deadline.
AnsweredQuote ==
    /\ client.answer # NoUpstream
    /\ client.answer.transport = "ok" /\ client.answer.readOk
    /\ client.answer.status = StatusOK
    /\ client.answer.body.kind = "object"
    /\ client.answer.dur < ClientTimeout

\* The line for the bid string of the Quote the service answered with.
ExpectedLine ==
    <<"D", "o", "l", "a", "r", ":", " ", "{">>
        \o client.answer.body.members["USDBRL"]["bid"] \o <<"}">>

\* C14: a client run that fails exits with a code other than 0 and leaves
\* cotacao.txt exactly as the prior successful run left it.
C14_FailureLeavesFileUntouched ==
    ClientFailed => /\ client.exit # 0
                    /\ file = client.lastGood

OwnQuoteBody(body) ==
    JSONObject([f \in Fields |->
                   IF f \in DOMAIN body.members["USDBRL"]
                   THEN body.members["USDBRL"][f] ELSE <<>>])

\* The rate, the response body and the stored row of every request come from
\* the upstream document that request received.
OwnQuoteOnly ==
    \A r \in Reqs :
        LET q == req[r]
        IN  /\ ~q.rate.nil
                   => /\ q.upstream.body.kind = "object"
                      /\ q.rate = Unmarshal(q.upstream.body).rate
            /\ (q.resp.status = StatusOK /\ ~q.rate.nil)
                   => q.resp.body = OwnQuoteBody(q.upstream.body)
            /\ (q.storeReturned /\ ~q.storeErr)
                   => /\ q.rowID \in 1..Len(db)
                      /\ \A s \in Reqs \ {r} : req[s].rowID # q.rowID
                      /\ db[q.rowID] = ExpectedRecord(q.upstream.body, q.rowID)

\* A step changes the state of at most one request, and the store only grows:
\* the rows that are stored stay as they are.
OneRequestPerStep ==
    /\ \A r \in Reqs, s \in Reqs :
           (r # s /\ req'[r] # req[r]) => req'[s] = req[s]
    /\ Len(db') >= Len(db)
    /\ SubSeq(db', 1, Len(db)) = db

\* C16: under every interleaving each request's response body and stored
\* record are derived from the Quote that same request fetched and from no
\* other request's, and requests share nothing but the store, which a step
\* of one request only appends to.
C16_RequestsShareOnlyTheStore == []OwnQuoteOnly /\ [][OneRequestPerStep]_vars

\* Two requests that fetched different Quotes both answered with their own
\* and both stored their own record.
C16_Witness ==
    \E r \in Reqs, s \in Reqs :
        /\ req[r].upstream.body = JSONObject(ScenarioQuote)
        /\ req[s].upstream.body = JSONObject(BadBidQuote)
        /\ req[r].pc = "done" /\ req[s].pc = "done"
        /\ req[r].resp.body # req[s].resp.body
        /\ req[r].resp.status = StatusOK /\ req[s].resp.status = StatusOK
        /\ req[r].storeReturned /\ ~req[r].storeErr
        /\ req[s].storeReturned /\ ~req[s].storeErr
        /\ Len(db) = 2 /\ req[r].rowID # req[s].rowID

\* C17: a request to /cotacao that has ended has written one response, either
\* 200 with the full Quote as its body or 500 with an empty body, whatever
\* the fetch resulted in, a status other than 200 from the provider included.
C17_EndsWithQuoteOrEmpty500 ==
    \A r \in Reqs :
        LET q == req[r]
        IN  (q.pc = "done" /\ q.path = "/cotacao")
                => /\ ~q.panicked
                   /\ \/ q.resp = EmptyError
                      \/ /\ q.resp.status = StatusOK
                         /\ q.resp.body.kind = "object"
                         /\ q.upstream # NoUpstream
                         /\ q.resp.body = OwnQuoteBody(q.upstream.body)

\* The rows of the store written for request r.
RowsOf(r) == {i \in 1..Len(db) : req[r].rowID = i}

\* C18: SaveExchangeRate has been called for a request exactly when its
\* select took the timer case; a request whose select took ctx.Done has no
\* call of SaveExchangeRate or db.Create, before or after its response, and
\* no row in the store; every row of the store belongs to a request that
\* committed.
C18_StoreCallIffCommitted ==
    /\ \A r \in Reqs :
        LET q == req[r]
        IN  /\ q.saveCalls > 0 <=> q.committed
            /\ q.storeCalls > 0 => q.committed
            /\ q.abandoned
                   => /\ ~q.committed
                      /\ q.saveCalls = 0 /\ q.storeCalls = 0
                      /\ ~q.storeReturned /\ RowsOf(r) = {}
    /\ \A i \in 1..Len(db) :
           \E r \in Reqs : req[r].committed /\ req[r].rowID = i

\* One request was abandoned and has answered, another committed and stored
\* the only row there is.
C18_Witness ==
    \E r \in Reqs, s \in Reqs :
        /\ req[r].pc = "done" /\ req[r].abandoned
        /\ req[r].resp.status = StatusOK /\ req[r].saveCalls = 0
        /\ req[s].pc = "done" /\ req[s].committed /\ req[s].rowID = 1
        /\ Len(db) = 1

\* The caller did not cancel within SimulatedWrite ms of the fetch returning.
NoCancelInFirst5ms(q) ==
    q.cancelAt = NoCancel \/ q.cancelAt > q.fetchEnd + SimulatedWrite

\* C19: when the inbound context is not cancelled in the 5ms after the fetch
\* returned without error, the timer fires before the 10ms deadline, the
\* select takes the timer case and SaveExchangeRate is called; the request
\* is never abandoned, even when the store call runs past the deadline or
\* the caller cancels while it runs.
C19_TimerAlwaysWinsWithoutCancel ==
    \A r \in Reqs :
        LET q == req[r]
        IN  /\ (Fetched(q) /\ q.err = "nil") => TimerAt(q) < q.ctxDeadline
            /\ (Resolved(q) /\ NoCancelInFirst5ms(q))
                   => /\ q.committed /\ ~q.abandoned
                      /\ q.saveCalls = 1
                      /\ ~q.rate.nil => q.storeCalls = 1
            /\ (q.pc = "done" /\ q.storeReturned)
                   => q.committed /\ ~q.abandoned

\* A request whose store call ran past the 10ms deadline committed, and so
\* did one whose caller cancelled during the store call.
C19_Witness ==
    \E r \in Reqs, s \in Reqs :
        /\ req[r].pc = "done" /\ req[r].committed /\ req[r].storeReturned
        /\ req[r].cancelAt = NoCancel
        /\ req[r].storeEnd > req[r].ctxDeadline
        /\ req[s].pc = "done" /\ req[s].committed /\ req[s].storeReturned
        /\ req[s].cancelAt > req[s].fetchEnd + SimulatedWrite

====
